---- MODULE Spec2Model ----
(***************************************************************************)
(* Model of src/main.py: the review generator and publisher.               *)
(*                                                                         *)
(* A Python str is a sequence of one-character strings, so that split,     *)
(* join, strip, replace and lower are computed character by character.     *)
(*                                                                         *)
(* Three specifications:                                                   *)
(*   Spec      the __main__ run (lookup, store name, generation, posting)  *)
(*   SpecText  strip / clean_review_text / introduce_typos on any text     *)
(*   SpecPost  post_review_to_woocommerce called with any arguments        *)
(***************************************************************************)
EXTENDS Integers, Sequences, FiniteSets, Bags, TLC

VARIABLES
    \* ---- text functions (SpecText) ----
    t_op,       \* which function was applied: "none", "clean", "typo", "humanize"
    t_in,       \* the argument text
    t_out,      \* the returned text
    t_skip,     \* outcome of random.random() > 0.3
    t_index,    \* outcome of random.randint(0, len(words) - 1), -1 if not drawn
    t_a,        \* outcome of random.randint(1, len(word) - 2), -1 if not drawn
    t_b,        \* outcome of random.randint(1, len(word) - 1), -1 if not drawn
    \* ---- post_review_to_woocommerce (SpecPost) ----
    p_pc,       \* "idle", "returned" or "raised"
    p_args,     \* the arguments of the call
    p_payload,  \* the payload handed to requests.post
    p_requests, \* number of requests.post calls made
    p_resp,     \* what requests.post answered
    p_result,   \* what the function returned or raised
    \* ---- the __main__ run (Spec) ----
    pc,             \* position in the script
    product_url,    \* input(): the product URL
    product_info,   \* result of get_product_info
    store_name,     \* result of extract_store_name
    loaded,         \* what load_reviewer_names read from user_data.json
    reviewer_names, \* the pool inside generate_reviews_with_openai
    reviews,        \* the list being built inside generate_reviews_with_openai
    appended,       \* history: the bag of pairs appended to reviews
    calls,          \* history: the model invocations, in order
    quoted,         \* history: how many replies were QuotedReply
    batch,          \* the script's reviews variable (line 222)
    it,             \* 0-based index of the Step 4 loop
    posts,          \* history: the payloads handed to requests.post
    printed         \* history: what the script printed

textVars == <<t_op, t_in, t_out, t_skip, t_index, t_a, t_b>>
postVars == <<p_pc, p_args, p_payload, p_requests, p_resp, p_result>>
runVars == <<pc, product_url, product_info, store_name, loaded, reviewer_names,
             reviews, appended, calls, quoted, batch, it, posts, printed>>
vars == <<textVars, postVars, runVars>>

\* ------------------------------------------------------------------ bounds
\* Longest text handed to the text functions.
MaxLen == 7

\* ------------------------------------------------------------------ strings
Quote == "\""
Apostrophe == "'"
Space == " "
\* Characters of the texts explored.
Alphabet == {"a", "b", Space, Quote, Apostrophe}
\* The characters str.split() and str.strip() take for whitespace, among those
\* of Alphabet.
Whitespace == {Space}

Texts == UNION {[1..n -> Alphabet] : n \in 0..MaxLen}

\* s[i:j] of Python, 0-based, for 0 <= i and j <= len(s).
Slice(s, i, j) == IF j <= i THEN <<>> ELSE SubSeq(s, i + 1, j)

\* str.replace(ch, ''): every occurrence of the character removed.
RECURSIVE Remove(_, _)
Remove(s, ch) ==
    IF s = <<>> THEN <<>>
    ELSE IF Head(s) = ch THEN Remove(Tail(s), ch)
    ELSE <<Head(s)>> \o Remove(Tail(s), ch)

\* str.strip(): leading and trailing whitespace removed.
RECURSIVE LStrip(_)
LStrip(s) ==
    IF s # <<>> /\ Head(s) \in Whitespace THEN LStrip(Tail(s)) ELSE s

RECURSIVE RStrip(_)
RStrip(s) ==
    IF s # <<>> /\ s[Len(s)] \in Whitespace
    THEN RStrip(SubSeq(s, 1, Len(s) - 1)) ELSE s

Strip(s) == RStrip(LStrip(s))

\* str.split(): the maximal runs of non-whitespace characters, in order.
RECURSIVE SplitFrom(_, _, _)
SplitFrom(s, cur, acc) ==
    IF s = <<>> THEN (IF cur = <<>> THEN acc ELSE Append(acc, cur))
    ELSE IF Head(s) \in Whitespace
         THEN SplitFrom(Tail(s), <<>>, IF cur = <<>> THEN acc ELSE Append(acc, cur))
         ELSE SplitFrom(Tail(s), Append(cur, Head(s)), acc)

Split(s) == SplitFrom(s, <<>>, <<>>)

\* " ".join(words)
RECURSIVE Join(_)
Join(words) ==
    IF words = <<>> THEN <<>>
    ELSE IF Len(words) = 1 THEN words[1]
    ELSE words[1] \o <<Space>> \o Join(Tail(words))

\* ------------------------------------------------------------------ humanizer
\* clean_review_text without the second replace.
clean_review_text_double_only(text) == Remove(text, Quote)

clean_review_text(text) == Remove(Remove(text, Quote), Apostrophe)

\* The first cut point drawn from 0.
CutA_from_zero(word) == 0..(Len(word) - 2)

\* The values random.randint(1, len(word) - 2) can return.
CutA(word) == 1..(Len(word) - 2)

\* The values random.randint(1, len(word) - 1) can return.
CutB(word) == 1..(Len(word) - 1)

\* word[:a] + word[b:]
TypoWord(word, a, b) == Slice(word, 0, a) \o Slice(word, b, Len(word))

\* introduce_typos with the chosen word inserted in place of replaced.
introduce_typos_insert(text, skip, index, a, b) ==
    IF skip THEN text
    ELSE LET words == Split(text) IN
         IF Len(words) < 2 THEN text
         ELSE LET word == words[index + 1] IN
              IF Len(word) > 3
              THEN Join(SubSeq(words, 1, index) \o <<TypoWord(word, a, b)>>
                        \o SubSeq(words, index + 1, Len(words)))
              ELSE Join(words)

\* introduce_typos with its random draws as arguments: skip is
\* random.random() > 0.3, index the word chosen, a and b the two cut points.
introduce_typos(text, skip, index, a, b) ==
    IF skip THEN text
    ELSE LET words == Split(text) IN
         IF Len(words) < 2 THEN text
         ELSE LET word == words[index + 1] IN
              IF Len(word) > 3
              THEN Join([words EXCEPT ![index + 1] = TypoWord(word, a, b)])
              ELSE Join(words)

\* The draws introduce_typos makes on a text, as records; a draw that the
\* code does not make is -1.
TypoDraws(text) ==
    LET words == Split(text) IN
    {[skip |-> TRUE, index |-> -1, a |-> -1, b |-> -1]}
    \cup (IF Len(words) < 2
          THEN {[skip |-> FALSE, index |-> -1, a |-> -1, b |-> -1]}
          ELSE UNION {
                 IF Len(words[i + 1]) > 3
                 THEN {[skip |-> FALSE, index |-> i, a |-> x, b |-> y] :
                         x \in CutA(words[i + 1]), y \in CutB(words[i + 1])}
                 ELSE {[skip |-> FALSE, index |-> i, a |-> -1, b |-> -1]}
                 : i \in 0..(Len(words) - 1)})

\* Lines 129-130 and 154-155: the model's content is stripped, cleaned and
\* passed to introduce_typos; d is the record of that call's random draws.
HumanizeDraws(content) == TypoDraws(clean_review_text(Strip(content)))

Humanize(content, d) ==
    introduce_typos(clean_review_text(Strip(content)), d.skip, d.index, d.a, d.b)

\* ------------------------------------------------------------------ SpecText
TextIdle ==
    /\ t_op = "none"
    /\ t_in = <<>>
    /\ t_out = <<>>
    /\ t_skip = FALSE
    /\ t_index = -1
    /\ t_a = -1
    /\ t_b = -1

TextInputs ==
    /\ t_op = "none"
    /\ t_in \in Texts
    /\ t_out = <<>>
    /\ t_skip = FALSE
    /\ t_index = -1
    /\ t_a = -1
    /\ t_b = -1

CallClean ==
    /\ t_op = "none"
    /\ t_op' = "clean"
    /\ t_out' = clean_review_text(t_in)
    /\ UNCHANGED <<t_in, t_skip, t_index, t_a, t_b>>
    /\ UNCHANGED <<postVars, runVars>>

CallTypo ==
    /\ t_op = "none"
    /\ \E d \in TypoDraws(t_in) :
         /\ t_out' = introduce_typos(t_in, d.skip, d.index, d.a, d.b)
         /\ t_skip' = d.skip
         /\ t_index' = d.index
         /\ t_a' = d.a
         /\ t_b' = d.b
    /\ t_op' = "typo"
    /\ UNCHANGED t_in
    /\ UNCHANGED <<postVars, runVars>>

\* review_text = content.strip(); introduce_typos(clean_review_text(review_text))
CallHumanize ==
    /\ t_op = "none"
    /\ \E d \in HumanizeDraws(t_in) :
         /\ t_out' = Humanize(t_in, d)
         /\ t_skip' = d.skip
         /\ t_index' = d.index
         /\ t_a' = d.a
         /\ t_b' = d.b
    /\ t_op' = "humanize"
    /\ UNCHANGED t_in
    /\ UNCHANGED <<postVars, runVars>>

NextText == CallClean \/ CallTypo \/ CallHumanize

\* ------------------------------------------------------------------ publisher
\* Longest reviewer name handed to post_review_to_woocommerce.
MaxNameLen == 3

\* Python None; no str is this sequence, a str being made of single characters.
None == <<"None">>

UpperToLower ==
    [c \in {"A", "D", "J"} |-> CASE c = "A" -> "a" [] c = "D" -> "d" [] c = "J" -> "j"]

LowerToUpper ==
    [c \in {"a", "d", "j", "s"} |->
        CASE c = "a" -> "A" [] c = "d" -> "D" [] c = "j" -> "J" [] c = "s" -> "S"]

\* str.lower()
Lower(s) == [i \in 1..Len(s) |-> IF s[i] \in DOMAIN UpperToLower THEN UpperToLower[s[i]] ELSE s[i]]

\* str.upper()
Upper(s) == [i \in 1..Len(s) |-> IF s[i] \in DOMAIN LowerToUpper THEN LowerToUpper[s[i]] ELSE s[i]]

GmailSuffix == <<"@", "g", "m", "a", "i", "l", ".", "c", "o", "m">>

\* Line 177 with the space left in the name.
SynthEmail_keep_spaces(reviewer_name) == Lower(reviewer_name) \o GmailSuffix

\* Line 177: f"{reviewer_name.replace(' ', '').lower()}@gmail.com"
SynthEmail(reviewer_name) == Lower(Remove(reviewer_name, Space)) \o GmailSuffix

\* Lines 176-185: the payload built from the arguments.
Payload(product_id, review, reviewer_name, reviewer_email, rating) ==
    [product_id |-> product_id,
     review |-> review,
     reviewer |-> reviewer_name,
     reviewer_email |-> IF reviewer_email = None THEN SynthEmail(reviewer_name)
                        ELSE reviewer_email,
     rating |-> rating]

\* The status codes line 193 accepts.
AcceptedStatus == {200, 201}

\* Lines 193-198 with every answered request returned to the caller.
PostResult_swallow(resp) ==
    IF resp.kind = "exception"
    THEN [raised |-> TRUE, cause |-> "RequestException", status |-> 0,
          text |-> "", value |-> "none"]
    ELSE [raised |-> FALSE, cause |-> "none", status |-> 0,
          text |-> "", value |-> resp.text]

\* Lines 187-198: what the call returns or raises, given what requests.post
\* answered. A raised result is the RuntimeError of line 198; cause, status and
\* text are what its message names.
PostResult(resp) ==
    IF resp.kind = "exception"
    THEN [raised |-> TRUE, cause |-> "RequestException", status |-> 0,
          text |-> "", value |-> "none"]
    ELSE IF resp.status \in AcceptedStatus
    THEN IF resp.is_json
         THEN [raised |-> FALSE, cause |-> "none", status |-> 0,
               text |-> "", value |-> resp.text]
         ELSE [raised |-> TRUE, cause |-> "JSONDecodeError", status |-> 0,
               text |-> "", value |-> "none"]
    ELSE [raised |-> TRUE, cause |-> "ValueError", status |-> resp.status,
          text |-> resp.text, value |-> "none"]

\* Answers of the review-submission service.
PostResponses ==
    {[kind |-> "response", status |-> st, text |-> tx, is_json |-> js] :
        st \in {200, 201, 204, 400, 500}, tx \in {"{}", "denied"}, js \in BOOLEAN}
    \cup {[kind |-> "exception", status |-> 0, text |-> "", is_json |-> FALSE]}

JaneDoe == <<"J", "a", "n", "e", " ", "D", "o", "e">>

PostNames ==
    UNION {[1..n -> {"J", "d", Space}] : n \in 0..MaxNameLen} \cup {JaneDoe}

PostEmails == {None, <<>>, <<"J", " ", "@", "x">>}

PostIdle ==
    /\ p_pc = "idle"
    /\ p_args = <<>>
    /\ p_payload = <<>>
    /\ p_requests = 0
    /\ p_resp = <<>>
    /\ p_result = <<>>

PostInputs ==
    /\ p_pc = "idle"
    /\ p_args \in [product_id : {7, 42}, review : {<<"o", "k">>},
                   reviewer_name : PostNames, reviewer_email : PostEmails,
                   rating : {3, 5}]
    /\ p_payload = <<>>
    /\ p_requests = 0
    /\ p_resp = <<>>
    /\ p_result = <<>>

\* One call of post_review_to_woocommerce.
PostReview ==
    /\ p_pc = "idle"
    /\ \E resp \in PostResponses :
         /\ p_payload' = Payload(p_args.product_id, p_args.review,
                                 p_args.reviewer_name, p_args.reviewer_email,
                                 p_args.rating)
         /\ p_requests' = p_requests + 1
         /\ p_resp' = resp
         /\ p_result' = PostResult(resp)
         /\ p_pc' = IF PostResult(resp).raised THEN "raised" ELSE "returned"
    /\ UNCHANGED p_args
    /\ UNCHANGED <<textVars, runVars>>

NextPost == PostReview

\* ------------------------------------------------------------------ the run
\* Largest reviewer pool read from user_data.json.
MaxPool == 2
\* Most model replies of one run that are QuotedReply instead of PlainReply.
MaxQuotedReplies == 1

StoreCount == 7
ShortCount == 6
ProductCount == 3
DefaultRating == 5

Alice == <<"A", "l", "i", "c", "e">>
Bob == <<"B", "o", "b">>
Anonymous == <<"A", "n", "o", "n", "y", "m", "o", "u", "s">>

\* The names a user_data.json may list, in the order it lists them.
NameUniverse == <<Alice, Bob, Anonymous>>

RECURSIVE PickNames(_, _)
PickNames(i, S) ==
    IF i > Len(NameUniverse) THEN <<>>
    ELSE (IF i \in S THEN <<NameUniverse[i]>> ELSE <<>>) \o PickNames(i + 1, S)

\* The reviewer_names lists explored: unique names, at most MaxPool of them.
PoolFiles ==
    {PickNames(1, S) : S \in {T \in SUBSET (1..Len(NameUniverse)) : Cardinality(T) <= MaxPool}}

\* Contents the language model returns.
PlainReply == <<" ", "i", "t", " ", "i", "s", " ", "o", "k", " ">>
QuotedReply == <<Quote, "t", "o", "p", Quote, " ", "i", "t", Apostrophe, "s">>

\* The product the lookup of the store resolves the slug to.
Products ==
    {[id |-> i, name |-> "Widget", description |-> "d", short_description |-> "s"] :
        i \in {42}}

\* Answers of the product lookup service.
LookupResponses ==
    {[kind |-> "response", status |-> 200, json |-> <<pr>>] : pr \in Products}
    \cup {[kind |-> "response", status |-> st, json |-> <<>>] : st \in {200, 404}}
    \cup {[kind |-> "response", status |-> 500, json |-> <<pr>>] : pr \in Products}
    \cup {[kind |-> "exception", status |-> 0, json |-> <<>>]}

NoProduct == [unset |-> TRUE]
NoBatch == <<<<None, None>>>>

\* Lines 17-36: the dictionary returned, or raised for the RuntimeError.
get_product_info(resp) ==
    IF resp.kind = "response" /\ resp.status = 200 /\ resp.json # <<>>
    THEN [raised |-> FALSE,
          value |-> [product_id |-> resp.json[1].id,
                     title |-> resp.json[1].name,
                     description |-> resp.json[1].description,
                     short_description |-> resp.json[1].short_description]]
    ELSE [raised |-> TRUE, value |-> NoProduct]

\* Lines 209-211 without the exit().
AfterLookupError_no_exit == "step2"

\* Lines 209-211: where the script stands after print(e); exit().
AfterLookupError == "exited"

\* The product URLs entered: what urlparse makes of them.
Urls ==
    {[parse |-> "ok", hostname |-> <<"s", "J", "a", "d", ".", "i", "o">>],
     [parse |-> "error", hostname |-> None]}

\* domain.split(".")[0]
RECURSIVE FirstLabel(_)
FirstLabel(domain) ==
    IF domain = <<>> \/ Head(domain) = "." THEN <<>>
    ELSE <<Head(domain)>> \o FirstLabel(Tail(domain))

\* str.capitalize()
Capitalize(s) ==
    IF s = <<>> THEN <<>> ELSE Upper(<<Head(s)>>) \o Lower(Tail(s))

\* Lines 44-49.
extract_store_name(url) ==
    IF url.parse = "error" THEN [raised |-> TRUE, value |-> <<>>]
    ELSE [raised |-> FALSE,
          value |-> IF url.hostname # None /\ url.hostname # <<>>
                    THEN Capitalize(FirstLabel(url.hostname))
                    ELSE <<"S", "t", "o", "r", "e">>]

\* The positions of s that hold the first occurrence of their element.
FirstOccurrences(s) == {i \in 1..Len(s) : \A j \in 1..(i - 1) : s[j] # s[i]}

RemoveAt(s, i) == SubSeq(s, 1, i - 1) \o SubSeq(s, i + 1, Len(s))

\* Every ordering of the elements of s.
RECURSIVE Orderings(_)
Orderings(s) ==
    IF s = <<>> THEN {<<>>}
    ELSE UNION {{<<s[i]>> \o t : t \in Orderings(RemoveAt(s, i))} : i \in FirstOccurrences(s)}

\* random.shuffle that leaves the last element out.
ShuffleOutcomes_drop_last(s) ==
    IF s = <<>> THEN {<<>>} ELSE Orderings(SubSeq(s, 1, Len(s) - 1))

\* random.shuffle(s): the lists s can be afterwards.
ShuffleOutcomes(s) == Orderings(s)

\* Line 131 reading the last name without removing it.
Draw_no_pop(names) ==
    IF names # <<>>
    THEN [name |-> names[Len(names)], rest |-> names]
    ELSE [name |-> Anonymous, rest |-> names]

\* Lines 131 and 156: reviewer_names.pop() if reviewer_names else "Anonymous"
Draw(names) ==
    IF names # <<>>
    THEN [name |-> names[Len(names)], rest |-> SubSeq(names, 1, Len(names) - 1)]
    ELSE [name |-> Anonymous, rest |-> names]

\* Lines 162-163 returning the reviews generated so far.
GenerateFailure_return_partial(partial) == [raised |-> FALSE, value |-> partial]

\* Lines 162-163: any exception inside generate_reviews_with_openai leaves it
\* as a RuntimeError; the reviews generated so far are dropped with the frame.
GenerateFailure(partial) == [raised |-> TRUE, value |-> NoBatch]

\* Line 231: the key the Step 4 loop reads the product id with.
PostKey == "produQct_id"

RunIdle ==
    /\ pc = "idle"
    /\ product_url = [parse |-> "ok", hostname |-> None]
    /\ product_info = NoProduct
    /\ store_name = <<>>
    /\ loaded = <<>>
    /\ reviewer_names = <<>>
    /\ reviews = <<>>
    /\ appended = EmptyBag
    /\ calls = <<>>
    /\ quoted = 0
    /\ batch = NoBatch
    /\ it = 0
    /\ posts = <<>>
    /\ printed = <<>>

\* Lines 203-204: the inputs are read.
RunInputs ==
    /\ pc = "step1"
    /\ product_url \in Urls
    /\ product_info = NoProduct
    /\ store_name = <<>>
    /\ loaded = <<>>
    /\ reviewer_names = <<>>
    /\ reviews = <<>>
    /\ appended = EmptyBag
    /\ calls = <<>>
    /\ quoted = 0
    /\ batch = NoBatch
    /\ it = 0
    /\ posts = <<>>
    /\ printed = <<>>

\* Lines 206-211.
Step1 ==
    /\ pc = "step1"
    /\ \E resp \in LookupResponses :
         LET r == get_product_info(resp) IN
         IF r.raised
         THEN /\ printed' = Append(printed, "Error fetching product info")
              /\ pc' = AfterLookupError
              /\ UNCHANGED product_info
         ELSE /\ product_info' = r.value
              /\ pc' = "step2"
              /\ UNCHANGED printed
    /\ UNCHANGED <<product_url, store_name, loaded, reviewer_names, reviews,
                   appended, calls, quoted, batch, it, posts>>
    /\ UNCHANGED <<textVars, postVars>>

\* Lines 213-218.
Step2 ==
    /\ pc = "step2"
    /\ LET r == extract_store_name(product_url) IN
       IF r.raised
       THEN /\ printed' = Append(printed, "Error extracting store name")
            /\ pc' = "exited"
            /\ UNCHANGED store_name
       ELSE /\ store_name' = r.value
            /\ pc' = "step3"
            /\ UNCHANGED printed
    /\ UNCHANGED <<product_url, product_info, loaded, reviewer_names, reviews,
                   appended, calls, quoted, batch, it, posts>>
    /\ UNCHANGED <<textVars, postVars>>

\* What the script does with an exception out of generate_reviews_with_openai
\* (lines 223-225), or with its return value when GenerateFailure hands one back.
GenerateEnds(result) ==
    /\ reviews' = <<>>
    /\ reviewer_names' = <<>>
    /\ IF result.raised
       THEN /\ printed' = Append(printed, "Error generating reviews")
            /\ pc' = "exited"
            /\ UNCHANGED batch
       ELSE /\ batch' = result.value
            /\ pc' = "step4"
            /\ UNCHANGED printed

\* Lines 101-104: the pool is loaded and shuffled.
LoadPool ==
    /\ pc = "step3"
    /\ \/ \E file \in PoolFiles : \E order \in ShuffleOutcomes(file) :
            /\ loaded' = file
            /\ reviewer_names' = order
            /\ pc' = "store"
            /\ UNCHANGED <<reviews, batch, printed>>
       \/ /\ GenerateEnds(GenerateFailure(reviews))
          /\ UNCHANGED loaded
    /\ UNCHANGED <<product_url, product_info, store_name, appended, calls,
                   quoted, it, posts>>
    /\ UNCHANGED <<textVars, postVars>>

\* The contents the model may return at this point of the run.
ModelContents ==
    IF quoted < MaxQuotedReplies THEN {PlainReply, QuotedReply} ELSE {PlainReply}

\* One openai.ChatCompletion.create call with the prompt of the given kind,
\* and what follows it in the loop body (lines 120-132 and 145-157).
Invoke(prompt, nextpc) ==
    \/ \E content \in ModelContents : \E d \in HumanizeDraws(content) :
         LET review_text == Humanize(content, d)
             drawn == Draw(reviewer_names)
         IN /\ calls' = Append(calls, [prompt |-> prompt, ok |-> TRUE])
            /\ quoted' = IF content = QuotedReply THEN quoted + 1 ELSE quoted
            /\ reviewer_names' = drawn.rest
            /\ reviews' = Append(reviews, <<review_text, drawn.name>>)
            /\ appended' = appended (+) SetToBag({<<review_text, drawn.name>>})
            /\ pc' = nextpc
            /\ UNCHANGED <<batch, printed>>
    \/ /\ calls' = Append(calls, [prompt |-> prompt, ok |-> FALSE])
       /\ GenerateEnds(GenerateFailure(reviews))
       /\ UNCHANGED <<quoted, appended>>

\* Lines 107-132: one iteration of the store loop.
StoreReview ==
    /\ pc = "store"
    /\ LET i == Len(reviews) IN
       Invoke(IF i < ShortCount THEN "short" ELSE "long",
              IF i + 1 < StoreCount THEN "store" ELSE "product")
    /\ UNCHANGED <<product_url, product_info, store_name, loaded, it, posts>>
    /\ UNCHANGED <<textVars, postVars>>

\* Lines 144-157: one iteration of the product loop.
ProductReview ==
    /\ pc = "product"
    /\ LET j == Len(reviews) - StoreCount IN
       Invoke("product", IF j + 1 < ProductCount THEN "product" ELSE "shuffle")
    /\ UNCHANGED <<product_url, product_info, store_name, loaded, it, posts>>
    /\ UNCHANGED <<textVars, postVars>>

\* Lines 159-160 and 222: the batch is shuffled and returned to the script.
ShuffleAndReturn ==
    /\ pc = "shuffle"
    /\ \E r \in ShuffleOutcomes(reviews) :
         GenerateEnds([raised |-> FALSE, value |-> r])
    /\ UNCHANGED <<product_url, product_info, store_name, loaded, appended,
                   calls, quoted, it, posts>>
    /\ UNCHANGED <<textVars, postVars>>

\* Lines 228-238: one iteration of the Step 4 loop.
Step4 ==
    /\ pc = "step4"
    /\ IF it >= Len(batch)
       THEN /\ pc' = "done"
            /\ UNCHANGED <<it, posts, printed>>
       ELSE IF PostKey \notin DOMAIN product_info
       THEN \* KeyError at line 231, before post_review_to_woocommerce is called
            /\ printed' = Append(printed, "KeyError")
            /\ pc' = "exited"
            /\ UNCHANGED <<it, posts>>
       ELSE \E resp \in PostResponses :
            /\ posts' = Append(posts, Payload(product_info[PostKey], batch[it + 1][1],
                                              batch[it + 1][2], None, DefaultRating))
            /\ IF PostResult(resp).raised
               THEN /\ printed' = Append(printed, "Error posting review")
                    /\ pc' = "exited"
                    /\ UNCHANGED it
               ELSE /\ printed' = Append(printed, "Review successfully posted")
                    /\ it' = it + 1
                    /\ UNCHANGED pc
    /\ UNCHANGED <<product_url, product_info, store_name, loaded, reviewer_names,
                   reviews, appended, calls, quoted, batch>>
    /\ UNCHANGED <<textVars, postVars>>

Next == Step1 \/ Step2 \/ LoadPool \/ StoreReview \/ ProductReview
        \/ ShuffleAndReturn \/ Step4

\* ------------------------------------------------------------------ specifications
Init == RunInputs /\ TextIdle /\ PostIdle
Spec == Init /\ [][Next]_vars

InitText == TextInputs /\ PostIdle /\ RunIdle
SpecText == InitText /\ [][NextText]_vars

InitPost == PostInputs /\ TextIdle /\ RunIdle
SpecPost == InitPost /\ [][NextPost]_vars


\* ------------------------------------------------------------------ text claims
HasQuote(s) == \E i \in 1..Len(s) : s[i] \in {Quote, Apostrophe}

\* Positions at which two word sequences of the same length differ.
DiffPositions(u, w) == {i \in 1..Len(u) : u[i] # w[i]}

\* The word introduce_typos selected, and what stands in its place afterwards.
SelectedWord == Split(t_in)[t_index + 1]
ReplacedWord == Split(t_out)[t_index + 1]
WordModified == t_op = "typo" /\ ~t_skip /\ t_index >= 0 /\ t_a >= 0

\* w is v with one contiguous span [i, j) removed.
SpanDeleted(v, w) ==
    \E i \in 0..Len(v) : \E j \in i..Len(v) :
        w = Slice(v, 0, i) \o Slice(v, j, Len(v))

\* w is v with one contiguous non-empty span [i, j) written twice.
SpanRepeated(v, w) ==
    \E i \in 0..Len(v) : \E j \in (i + 1)..Len(v) :
        w = Slice(v, 0, j) \o Slice(v, i, Len(v))

\* C6: for every text of at least 2 words and every outcome of the random
\* draws, the words of introduce_typos(text) are as many as the words of text
\* and differ from them in at most one position.
C6_AtMostOneWordChanged ==
    (t_op = "typo" /\ Len(Split(t_in)) >= 2) =>
        /\ Len(Split(t_out)) = Len(Split(t_in))
        /\ Cardinality(DiffPositions(Split(t_in), Split(t_out))) <= 1

C6_Witness ==
    /\ t_op = "typo"
    /\ Len(Split(t_in)) >= 2
    /\ Len(Split(t_out)) = Len(Split(t_in))
    /\ Cardinality(DiffPositions(Split(t_in), Split(t_out))) = 1

\* C9 as stated: whenever introduce_typos modifies a word, the replacement is
\* not longer than the original and is the original with one contiguous span
\* of characters deleted.
C9_ReplacementIsDeletion ==
    WordModified =>
        /\ Len(ReplacedWord) <= Len(SelectedWord)
        /\ SpanDeleted(SelectedWord, ReplacedWord)

\* C9 amended: whenever introduce_typos modifies a word, the replacement is
\* the original with one contiguous span either deleted (then it is not
\* longer than the original) or written twice (then it is longer, by at most
\* len - 3 characters); it is never empty and keeps the original's first and
\* last character.
C9_ReplacementIsDeletionOrRepeat ==
    WordModified =>
        LET v == SelectedWord
            w == ReplacedWord
        IN /\ Len(w) >= 2
           /\ Len(w) <= 2 * Len(v) - 3
           /\ w[1] = v[1]
           /\ w[Len(w)] = v[Len(v)]
           /\ Len(w) <= Len(v) => SpanDeleted(v, w)
           /\ Len(w) > Len(v) => SpanRepeated(v, w)

C9_Witness ==
    /\ WordModified
    /\ Len(ReplacedWord) > Len(SelectedWord)
    /\ SpanRepeated(SelectedWord, ReplacedWord)

\* C10: the review text produced from any model output, clean applied before
\* typo, contains neither a double nor a single quotation mark; clean alone
\* leaves none, and typo puts none into a text that has none.
C10_NoQuotesInReviewText ==
    /\ t_op \in {"humanize", "clean"} => ~HasQuote(t_out)
    /\ (t_op = "typo" /\ ~HasQuote(t_in)) => ~HasQuote(t_out)

C10_Witness ==
    /\ t_op = "humanize"
    /\ \E i \in 1..Len(t_in) : t_in[i] = Apostrophe
    /\ t_a >= 0
    /\ t_out # clean_review_text(Strip(t_in))
    /\ ~HasQuote(t_out)

\* ------------------------------------------------------------------ publisher claims
NotSpace(c) == c # Space

JaneDoeEmail ==
    <<"j", "a", "n", "e", "d", "o", "e", "@", "g", "m", "a", "i", "l", ".", "c", "o", "m">>

\* C7: called without a reviewer_email, the payload's email is the reviewer
\* name with every space removed and every letter lowercased, followed by
\* "@gmail.com" ("Jane Doe" gives "janedoe@gmail.com"); an explicit email is
\* placed in the payload unchanged.
C7_EmailSynthesis ==
    p_pc # "idle" =>
        LET name == p_args.reviewer_name
            email == p_payload.reviewer_email
            kept == SelectSeq(name, NotSpace)
            k == Len(email) - 10
        IN IF p_args.reviewer_email = None
           THEN /\ k = Len(kept)
                /\ SubSeq(email, k + 1, Len(email)) =
                       <<"@", "g", "m", "a", "i", "l", ".", "c", "o", "m">>
                /\ \A i \in 1..k :
                     /\ kept[i] = "J" => email[i] = "j"
                     /\ kept[i] = "D" => email[i] = "d"
                     /\ kept[i] \notin {"J", "D"} => email[i] = kept[i]
                /\ name = JaneDoe => email = JaneDoeEmail
           ELSE email = p_args.reviewer_email

C7_Witness ==
    /\ p_pc # "idle"
    /\ p_args.reviewer_name = JaneDoe
    /\ p_args.reviewer_email = None
    /\ p_payload.reviewer_email = JaneDoeEmail

Range(s) == {s[i] : i \in 1..Len(s)}

\* The bag of the elements of a sequence.
BagOfSeq(s) == [e \in Range(s) |-> Cardinality({i \in 1..Len(s) : s[i] = e})]

Terminated == pc \in {"exited", "done"}

\* C1: in a run where the lookup resolves to a product with id P, all 10 model
\* invocations succeed and no submission is rejected, exactly 10 submission
\* calls are attempted, each with product_id = P and a non-empty reviewer name
\* from the loaded pool or "Anonymous".
C1_TenSubmissions ==
    (/\ Terminated
     /\ product_info # NoProduct
     /\ Len(calls) = 10
     /\ \A k \in 1..Len(calls) : calls[k].ok
     /\ \A k \in 1..Len(printed) : printed[k] # "Error posting review") =>
        /\ Len(posts) = 10
        /\ \A k \in 1..Len(posts) :
             /\ posts[k].product_id = product_info.product_id
             /\ posts[k].reviewer # <<>>
             /\ posts[k].reviewer \in Range(loaded) \cup {Anonymous}

\* C2: when the product lookup fails the run prints the error and terminates,
\* with no model invocation and no submission call.
C2_LookupFailureStopsRun ==
    (printed # <<>> /\ printed[1] = "Error fetching product info") =>
        /\ pc = "exited"
        /\ printed = <<"Error fetching product info">>
        /\ product_info = NoProduct
        /\ calls = <<>>
        /\ posts = <<>>

C2_Witness ==
    /\ pc = "exited"
    /\ printed = <<"Error fetching product info">>
    /\ calls = <<>>
    /\ posts = <<>>

\* C3: when the k-th model invocation fails, generate_reviews_with_openai
\* raises and returns no batch: the k-1 reviews generated so far never reach
\* the caller, the failed invocation is the last one, and the run ends with no
\* submission call.
C3_ModelFailureAbortsBatch ==
    (\E k \in 1..Len(calls) : ~calls[k].ok) =>
        /\ ~calls[Len(calls)].ok
        /\ \A k \in 1..(Len(calls) - 1) : calls[k].ok
        /\ BagCardinality(appended) = Len(calls) - 1
        /\ reviews = <<>>
        /\ batch = NoBatch
        /\ posts = <<>>
        /\ pc = "exited"

C3_Witness ==
    /\ Len(calls) = 4
    /\ ~calls[4].ok
    /\ BagCardinality(appended) = 3
    /\ batch = NoBatch
    /\ posts = <<>>
    /\ pc = "exited"

Generating == pc \in {"store", "product", "shuffle"}

\* What C4 says of the draws of one batch generation other than that a pool
\* name is not returned twice: the first N are distinct members of the loaded
\* pool, the later ones are "Anonymous", and the pool only shrinks.
DrawsFollowPool ==
    Generating =>
        LET N == Len(loaded)
            n == Len(reviews)
        IN /\ \A i \in 1..n : i <= N => reviews[i][2] \in Range(loaded)
           /\ \A i \in 1..n : \A j \in (i + 1)..n :
                j <= N => reviews[i][2] # reviews[j][2]
           /\ \A i \in 1..n : i > N => reviews[i][2] = Anonymous
           /\ Len(reviewer_names) = IF n < N THEN N - n ELSE 0

\* The reviewer names of the list being generated or of the batch returned.
NamesOut ==
    IF Generating THEN [i \in 1..Len(reviews) |-> reviews[i][2]]
    ELSE IF batch # NoBatch THEN [i \in 1..Len(batch) |-> batch[i][2]]
    ELSE <<>>

\* C4 as stated: for a pool loaded with N unique names the first N draws are
\* pairwise distinct members of the pool, every later draw is "Anonymous", the
\* pool never grows, and no name of the pool is returned twice in a run.
C4_DrawWithoutReplacement ==
    /\ DrawsFollowPool
    /\ \A i \in 1..Len(NamesOut) : \A j \in (i + 1)..Len(NamesOut) :
         NamesOut[i] \in Range(loaded) => NamesOut[i] # NamesOut[j]

\* C4 amended: as stated, except that only the pool names other than
\* "Anonymous" are never returned twice; a pool that lists "Anonymous" has it
\* returned once from the pool and again by every fallback draw.
C4_DrawWithoutReplacementButAnonymous ==
    /\ DrawsFollowPool
    /\ \A i \in 1..Len(NamesOut) : \A j \in (i + 1)..Len(NamesOut) :
         (NamesOut[i] \in Range(loaded) /\ NamesOut[i] # Anonymous) =>
             NamesOut[i] # NamesOut[j]

C4_Witness ==
    /\ pc = "shuffle"
    /\ loaded = <<Alice, Anonymous>>
    /\ reviews[1][2] = Anonymous
    /\ reviews[2][2] = Alice
    /\ reviews[3][2] = Anonymous
    /\ reviewer_names = <<>>

\* C5: when every model invocation succeeds the batch returned has exactly 10
\* entries, generated as 7 store-level reviews followed by 3 product-level
\* ones, and is a permutation of the (text, reviewer name) pairs appended: the
\* final shuffle adds, drops and duplicates nothing and keeps every pairing.
C5_BatchIsPermutation ==
    /\ pc = "shuffle" => (Len(reviews) = 10 /\ BagOfSeq(reviews) = appended)
    /\ batch # NoBatch =>
        /\ Len(batch) = 10
        /\ BagOfSeq(batch) = appended
        /\ Len(calls) = 10
        /\ \A k \in 1..Len(calls) :
             /\ calls[k].ok
             /\ calls[k].prompt = IF k <= 6 THEN "short"
                                  ELSE IF k = 7 THEN "long" ELSE "product"

C5_Witness ==
    /\ batch # NoBatch
    /\ Len(batch) = 10
    /\ batch[1][2] = Anonymous
    /\ batch[10][2] = Bob
    /\ \E i, j \in 1..Len(batch) : batch[i][1] # batch[j][1]
    /\ BagOfSeq(batch) = appended
====
